---- MODULE Spec2Model ----
(***************************************************************************)
(* Model of the live session / room coordination code of src/src/server.ts *)
(* (the io.on(Events.Connection) closure, lines 625-1001): the in-memory   *)
(* maps rooms, connectedUsers, typingUsers and typingTimeouts, the         *)
(* user_login handshake with its awaited storage calls, the 10 s           *)
(* tempUserTimeout fallback, joinRoom, typing / stopTyping with the 3 s    *)
(* decay timer, disconnect, and chatMessage with its awaited storage calls *)
(* up to the broadcast.  Further specifications apply the backlog query of *)
(* src/src/database.ts (getRecentMessages), the client's                   *)
(* StateManager.cacheMessage of src/src/client.ts and the validation of    *)
(* the chatMessage payload to bounded inputs.                              *)
(*                                                                         *)
(* Node runs every handler to its next await without interleaving, so one  *)
(* action is one such run-to-completion segment.  A timer that has been    *)
(* armed and not cleared may fire at any later step.                       *)
(***************************************************************************)
EXTENDS Integers, Sequences, FiniteSets, TLC

\* ---------------------------------------------------------------- bounds
\* sockets that connect during a run
NumSockets == 2
\* client events (connection, user_login, joinRoom, typing, stopTyping,
\* chatMessage, disconnect) the server receives during a run
MaxEvents == 5
\* user_login / joinRoom bodies of one socket suspended at an await at once
MaxLoginTasks == 1
MaxJoinTasks == 1
\* chat messages that pass the validation during a run
MaxChats == 2

Sockets == 1 .. NumSockets

\* usernames present in the users table, and the names a client may send
DbUsers == {"alice"}
LoginNames == DbUsers \cup {"nobody"}
\* `User${Math.floor(Math.random() * 1000)}`: the draws the model considers
TempNames == {"User7"}

\* the rooms initializeServer creates (of the five TEST_ROOMS the model
\* keeps the default room), and the names a client may send in joinRoom
TEST_ROOMS == {"General"}
RoomNames == TEST_ROOMS \cup {"Lobby"}

\* ------------------------------------------------------------ JS Map helpers
EmptyMap == [k \in {} |-> {}]
MapHas(m, k) == k \in DOMAIN m
MapSet(m, k, v) == [x \in (DOMAIN m) \cup {k} |-> IF x = k THEN v ELSE m[x]]
MapDelete(m, k) == [x \in (DOMAIN m) \ {k} |-> m[x]]

\* ------------------------------------------------------------ identities
\* user.uuid of a row of the users table
DbUuid(name) == [temp |-> 0, user |-> name]
\* `temp-${socket.id}-${Date.now()}`
TempUuid(s) == [temp |-> s, user |-> "-"]

ConnectedUser(uuid, username, room) ==
    [uuid |-> uuid, username |-> username, currentRoom |-> room]

VARIABLES
    conn,                    \* socket s: "idle" (not yet connected), "open", "closed"
    authenticationAttempted, \* the closure's flag, per socket
    tempUserTimeout,         \* the fallback timer: "none", "pending", "cleared", "fired"
    connectedUsers,          \* Map socket.id -> ConnectedUser
    rooms,                   \* Map roomName -> users (set of uuids)
    typingUsers,             \* Map room -> set of usernames
    typingTimeouts,          \* Map room -> Map username -> timer handle
    pendingTimers,           \* decay timers armed and neither cleared nor fired
    logins,                  \* user_login async bodies suspended at an await
    joins,                   \* joinRoom async bodies suspended in sendRecentMessages
    disconnecting,           \* Map socket -> userData of a suspended disconnect body
    chats,                   \* chatMessage async bodies suspended at an await
    chatSeq,                 \* chat messages accepted so far
    messages,                \* the rows of the messages table
    messageCache,            \* a client's StateManager state.messageCache
    cached,                  \* room -> number of cacheMessage calls for it so far
    payload,                 \* the value clients send with chatMessage in this run
    events,                  \* client events received so far
    out                      \* what the last step emitted, in order

sockVars == <<conn, authenticationAttempted, tempUserTimeout>>
typingVars == <<typingUsers, typingTimeouts, pendingTimers>>
chatVars == <<chats, chatSeq>>
storeVars == <<messages, messageCache, cached, payload>>
taskVars == <<logins, joins, disconnecting, chatVars, storeVars>>
vars == <<sockVars, connectedUsers, rooms, typingVars, taskVars, events, out>>

\* The in-memory maps as they are at the moment of an emit call
Snap(rms, cu, tu) == [rooms |-> rms, users |-> cu, typing |-> tu]

\* One emitted event.  room = "-" for socket.emit (to the socket itself),
\* otherwise the room of socket.broadcast.to(room); from is the emitting socket.
Emit(ev, room, who, s, snap) ==
    [ev |-> ev, room |-> room, who |-> who, from |-> s, snap |-> snap]

\* the maps as an emit call of a step that does not change them sees them
Now == Snap(rooms, connectedUsers, typingUsers)

\* a client event arrives: one more of the MaxEvents
Receive == events < MaxEvents /\ events' = events + 1

\* getOrCreateRoom(roomName): the rooms map after the call
getOrCreateRoom(rms, roomName) ==
    IF MapHas(rms, roomName) THEN rms ELSE MapSet(rms, roomName, {})

\* room.users.add(uuid) on the room getOrCreateRoom returns
RoomAdd(rms, roomName, uuid) ==
    LET r1 == getOrCreateRoom(rms, roomName)
    IN  MapSet(r1, roomName, r1[roomName] \cup {uuid})

\* mutant of RoomDelete: a room whose last user leaves is deleted from the map
RoomDelete_DropsEmpty(rms, roomName, uuid) ==
    IF MapHas(rms, roomName)
    THEN IF rms[roomName] \ {uuid} = {}
         THEN MapDelete(rms, roomName)
         ELSE MapSet(rms, roomName, rms[roomName] \ {uuid})
    ELSE rms

\* const d = rooms.get(roomName); if (d) d.users.delete(uuid)
RoomDelete(rms, roomName, uuid) ==
    IF MapHas(rms, roomName)
    THEN MapSet(rms, roomName, rms[roomName] \ {uuid})
    ELSE rms

InitSession ==
    /\ conn = [s \in Sockets |-> "idle"]
    /\ authenticationAttempted = [s \in Sockets |-> FALSE]
    /\ tempUserTimeout = [s \in Sockets |-> "none"]
    /\ connectedUsers = EmptyMap
    /\ rooms = [r \in TEST_ROOMS |-> {}]
    /\ typingUsers = EmptyMap
    /\ typingTimeouts = EmptyMap
    /\ pendingTimers = {}
    /\ logins = {}
    /\ joins = {}
    /\ disconnecting = EmptyMap
    /\ chats = {}
    /\ chatSeq = 0
    /\ events = 0
    /\ out = <<>>

\* the state after construction: no message stored, nothing cached
\* a value a client may pass as the argument of an event: its typeof, whether
\* it is truthy (!msg is false), and its characters when it is a string
JsString(chars) == [type |-> "string", truthy |-> chars # <<>>, chars |-> chars]
JsValue(type, truthy) == [type |-> type, truthy |-> truthy, chars |-> <<>>]
Undefined == JsValue("undefined", FALSE)

Init ==
    /\ InitSession
    /\ messages = {}
    /\ messageCache = EmptyMap
    /\ cached = EmptyMap
    /\ payload = Undefined

\* io.on(Events.Connection): the closure is created and the fallback timer armed
Connection(s) ==
    /\ conn[s] = "idle"
    /\ Receive
    /\ conn' = [conn EXCEPT ![s] = "open"]
    /\ authenticationAttempted' = [authenticationAttempted EXCEPT ![s] = FALSE]
    /\ tempUserTimeout' = [tempUserTimeout EXCEPT ![s] = "pending"]
    /\ out' = <<>>
    /\ UNCHANGED <<connectedUsers, rooms, typingVars, taskVars>>

\* ------------------------------------------------------------ user_login
LoginTask(s, name, pc) == [sock |-> s, username |-> name, pc |-> pc]

\* mutant of UserLogin: the clearTimeout(tempUserTimeout) call is missing
UserLogin_NoClear(s, name) ==
    /\ conn[s] = "open"
    /\ Receive
    /\ Cardinality({t \in logins : t.sock = s}) < MaxLoginTasks
    /\ authenticationAttempted' = [authenticationAttempted EXCEPT ![s] = TRUE]
    /\ logins' = logins \cup {LoginTask(s, name, "getUserByUsername")}
    /\ out' = <<>>
    /\ UNCHANGED <<chatVars, storeVars, conn, tempUserTimeout, connectedUsers, rooms, typingVars, joins,
                   disconnecting>>

\* socket.on('user_login'): the synchronous part, up to the first await
UserLogin(s, name) ==
    /\ conn[s] = "open"
    /\ Receive
    /\ Cardinality({t \in logins : t.sock = s}) < MaxLoginTasks
    /\ tempUserTimeout' = [tempUserTimeout EXCEPT
            ![s] = IF @ = "pending" THEN "cleared" ELSE @]
    /\ authenticationAttempted' = [authenticationAttempted EXCEPT ![s] = TRUE]
    /\ logins' = logins \cup {LoginTask(s, name, "getUserByUsername")}
    /\ out' = <<>>
    /\ UNCHANGED <<chatVars, storeVars, conn, connectedUsers, rooms, typingVars, joins, disconnecting>>

\* the login body moves from one await to the next, emitting nothing
LoginAdvance(t, pc) ==
    /\ logins' = (logins \ {t}) \cup {LoginTask(t.sock, t.username, pc)}
    /\ out' = <<>>

\* mutant of LoginFail: a failed handshake falls back to a temp user
LoginFail_BindsTemp(t) ==
    /\ logins' = logins \ {t}
    /\ out' = <<Emit("authentication_failed", "-", t.username, t.sock, Now)>>
    /\ connectedUsers' = MapSet(connectedUsers, t.sock,
            ConnectedUser(TempUuid(t.sock), t.username, "General"))
    /\ rooms' = RoomAdd(rooms, "General", TempUuid(t.sock))
    /\ UNCHANGED <<chatVars, storeVars, sockVars, typingVars, joins, disconnecting, events>>

\* the else branch and the catch block: socket.emit('authentication_failed', ...)
LoginFail(t) ==
    /\ logins' = logins \ {t}
    /\ out' = <<Emit("authentication_failed", "-", t.username, t.sock, Now)>>
    /\ UNCHANGED <<chatVars, storeVars, sockVars, connectedUsers, rooms, typingVars, joins,
                   disconnecting, events>>

\* await getUserByUsername resolves (found / not found) or rejects
LoginGetUser(t, ok) ==
    /\ t \in logins /\ t.pc = "getUserByUsername"
    /\ IF ok /\ t.username \in DbUsers
       THEN /\ LoginAdvance(t, "updateUserStatus")
            /\ UNCHANGED <<chatVars, storeVars, sockVars, connectedUsers, rooms, typingVars, joins,
                           disconnecting, events>>
       ELSE LoginFail(t)

\* the connection record the handshake stores for socket s
LoginRecord(cu, s, username) ==
    MapSet(cu, s, ConnectedUser(DbUuid(username), username, "General"))

\* await updateUserStatus resolves: the record is stored and General joined,
\* up to await addUserToRoom; or it rejects
LoginBind(t, ok) ==
    /\ t \in logins /\ t.pc = "updateUserStatus"
    /\ IF ok
       THEN /\ connectedUsers' = LoginRecord(connectedUsers, t.sock, t.username)
            /\ rooms' = RoomAdd(rooms, "General", DbUuid(t.username))
            /\ LoginAdvance(t, "addUserToRoom")
            /\ UNCHANGED <<chatVars, storeVars, sockVars, typingVars, joins, disconnecting, events>>
       ELSE LoginFail(t)

\* await addUserToRoom resolves: UserJoined is broadcast, up to the await in
\* sendRecentMessages; or it rejects
LoginNotify(t, ok) ==
    /\ t \in logins /\ t.pc = "addUserToRoom"
    /\ IF ok
       THEN /\ logins' = (logins \ {t})
                            \cup {LoginTask(t.sock, t.username, "sendRecentMessages")}
            /\ out' = <<Emit("UserJoined", "General", t.username, t.sock, Now)>>
            /\ UNCHANGED <<chatVars, storeVars, sockVars, connectedUsers, rooms, typingVars, joins,
                           disconnecting, events>>
       ELSE LoginFail(t)

\* sendRecentMessages: the messages are emitted, or the error is swallowed
sendRecentMessages(s, roomName, ok, snap) ==
    IF ok THEN <<Emit("roomBacklog", roomName, "-", s, snap)>> ELSE <<>>

\* await sendRecentMessages returns (it never rejects): authentication_success
LoginFinish(t, ok) ==
    /\ t \in logins /\ t.pc = "sendRecentMessages"
    /\ logins' = logins \ {t}
    /\ out' = sendRecentMessages(t.sock, "General", ok, Now)
                \o <<Emit("authentication_success", "-", t.username, t.sock, Now)>>
    /\ UNCHANGED <<chatVars, storeVars, sockVars, connectedUsers, rooms, typingVars, joins,
                   disconnecting, events>>

\* ------------------------------------------------------------ fallback timer
\* mutant of TempUserTimeoutFire: the temp user is stored but not added to
\* the users of General
TempUserTimeoutFire_NoRoomAdd(s, tempUsername) ==
    /\ tempUserTimeout[s] = "pending"
    /\ tempUserTimeout' = [tempUserTimeout EXCEPT ![s] = "fired"]
    /\ IF ~MapHas(connectedUsers, s) /\ ~authenticationAttempted[s]
       THEN /\ connectedUsers' = MapSet(connectedUsers, s,
                    ConnectedUser(TempUuid(s), tempUsername, "General"))
            /\ out' = <<Emit("UserJoined", "General", tempUsername, s,
                             Snap(rooms, connectedUsers', typingUsers))>>
            /\ UNCHANGED rooms
       ELSE /\ out' = <<>>
            /\ UNCHANGED <<connectedUsers, rooms>>
    /\ UNCHANGED <<conn, authenticationAttempted, typingVars, taskVars, events>>

\* the tempUserTimeout callback, 10 s after the connection
TempUserTimeoutFire(s, tempUsername) ==
    /\ tempUserTimeout[s] = "pending"
    /\ tempUserTimeout' = [tempUserTimeout EXCEPT ![s] = "fired"]
    /\ IF ~MapHas(connectedUsers, s) /\ ~authenticationAttempted[s]
       THEN /\ connectedUsers' = MapSet(connectedUsers, s,
                    ConnectedUser(TempUuid(s), tempUsername, "General"))
            /\ rooms' = RoomAdd(rooms, "General", TempUuid(s))
            /\ out' = <<Emit("UserJoined", "General", tempUsername, s,
                             Snap(rooms', connectedUsers', typingUsers))>>
       ELSE /\ out' = <<>>
            /\ UNCHANGED <<connectedUsers, rooms>>
    /\ UNCHANGED <<conn, authenticationAttempted, typingVars, taskVars, events>>

\* ------------------------------------------------------------ typing
\* a decay timer handle: the closure of the setTimeout callback captures
\* room, userData (the record object: its username and uuid) and socket
Timer(room, userData, s) ==
    LET same == {h \in pendingTimers :
                    /\ h.room = room /\ h.username = userData.username
                    /\ h.uuid = userData.uuid /\ h.sock = s}
        \* setTimeout returns a handle unlike every handle still pending
        id == CHOOSE n \in 0 .. Cardinality(same) : \A h \in same : h.id # n
    IN  [room |-> room, username |-> userData.username, uuid |-> userData.uuid,
         sock |-> s, id |-> id]

\* mutant of Rearm: the clearTimeout(existingTimeout) call is missing
Rearm_NoClear(pending, existing, timeout) == pending \cup {timeout}

\* clearTimeout(existingTimeout), then setTimeout: the timers pending after
Rearm(pending, existing, timeout) == (pending \ existing) \cup {timeout}

\* typingUsers.get(room) / typingTimeouts.get(room), undefined read as empty
TypingIn(tu, room) == IF MapHas(tu, room) THEN tu[room] ELSE {}
TimeoutsIn(tt, room) == IF MapHas(tt, room) THEN tt[room] ELSE EmptyMap

\* if (t) { clearTimeout(t); roomTimeouts.delete(username) } on the map of room
ClearUserTimeout(tt, room, username) ==
    IF MapHas(tt, room) /\ MapHas(tt[room], username)
    THEN MapSet(tt, room, MapDelete(tt[room], username))
    ELSE tt

\* the timers that if-block clears
ClearedTimers(tt, room, username) ==
    IF MapHas(tt, room) /\ MapHas(tt[room], username)
    THEN {tt[room][username]}
    ELSE {}

\* what the typing handler broadcasts for a signal of username in room
TypingEmits(s, room, username, snap) ==
    <<Emit("typing", room, username, s, snap)>>

\* socket.on(Events.Typing)
Typing(s) ==
    /\ conn[s] = "open"
    /\ Receive
    /\ IF ~MapHas(connectedUsers, s)
       THEN /\ out' = <<>>
            /\ UNCHANGED <<typingUsers, typingTimeouts, pendingTimers>>
       ELSE LET userData == connectedUsers[s]
                room == userData.currentRoom
                name == userData.username
                typingInRoom == TypingIn(typingUsers, room)
                roomTimeouts == TimeoutsIn(typingTimeouts, room)
                existing == IF MapHas(roomTimeouts, name)
                            THEN {roomTimeouts[name]} ELSE {}
                timeout == Timer(room, userData, s)
            IN  /\ typingUsers' = MapSet(typingUsers, room, typingInRoom \cup {name})
                /\ out' = TypingEmits(s, room, name,
                                      Snap(rooms, connectedUsers, typingUsers'))
                /\ pendingTimers' = Rearm(pendingTimers, existing, timeout)
                /\ typingTimeouts' = MapSet(typingTimeouts, room,
                                            MapSet(roomTimeouts, name, timeout))
    /\ UNCHANGED <<sockVars, connectedUsers, rooms, taskVars>>

\* the decay callback of a timer armed by the typing handler, 3 s later
TypingTimeoutFire(h) ==
    /\ h \in pendingTimers
    /\ pendingTimers' = pendingTimers \ {h}
    /\ typingUsers' = IF MapHas(typingUsers, h.room)
                      THEN MapSet(typingUsers, h.room, typingUsers[h.room] \ {h.username})
                      ELSE typingUsers
    /\ typingTimeouts' = IF MapHas(typingTimeouts, h.room)
                         THEN MapSet(typingTimeouts, h.room,
                                     MapDelete(typingTimeouts[h.room], h.username))
                         ELSE typingTimeouts
    /\ out' = <<Emit("stopTyping", h.room, h.username, h.sock,
                     Snap(rooms, connectedUsers, typingUsers'))>>
    /\ UNCHANGED <<sockVars, connectedUsers, rooms, taskVars, events>>

\* mutant of StopTyping: the block that clears the timeout is missing
StopTyping_KeepsTimer(s) ==
    /\ conn[s] = "open"
    /\ Receive
    /\ IF ~MapHas(connectedUsers, s)
       THEN /\ out' = <<>>
            /\ UNCHANGED <<typingUsers, typingTimeouts, pendingTimers>>
       ELSE LET userData == connectedUsers[s]
                room == userData.currentRoom
                name == userData.username
            IN  IF MapHas(typingUsers, room) /\ name \in typingUsers[room]
                THEN /\ typingUsers' = MapSet(typingUsers, room,
                                              typingUsers[room] \ {name})
                     /\ UNCHANGED <<typingTimeouts, pendingTimers>>
                     /\ out' = <<Emit("stopTyping", room, name, s,
                                      Snap(rooms, connectedUsers, typingUsers'))>>
                ELSE /\ out' = <<>>
                     /\ UNCHANGED <<typingUsers, typingTimeouts, pendingTimers>>
    /\ UNCHANGED <<sockVars, connectedUsers, rooms, taskVars>>

\* socket.on(Events.StopTyping)
StopTyping(s) ==
    /\ conn[s] = "open"
    /\ Receive
    /\ IF ~MapHas(connectedUsers, s)
       THEN /\ out' = <<>>
            /\ UNCHANGED <<typingUsers, typingTimeouts, pendingTimers>>
       ELSE LET userData == connectedUsers[s]
                room == userData.currentRoom
                name == userData.username
            IN  IF MapHas(typingUsers, room) /\ name \in typingUsers[room]
                THEN /\ typingUsers' = MapSet(typingUsers, room,
                                              typingUsers[room] \ {name})
                     /\ pendingTimers' = pendingTimers
                                            \ ClearedTimers(typingTimeouts, room, name)
                     /\ typingTimeouts' = ClearUserTimeout(typingTimeouts, room, name)
                     /\ out' = <<Emit("stopTyping", room, name, s,
                                      Snap(rooms, connectedUsers, typingUsers'))>>
                ELSE /\ out' = <<>>
                     /\ UNCHANGED <<typingUsers, typingTimeouts, pendingTimers>>
    /\ UNCHANGED <<sockVars, connectedUsers, rooms, taskVars>>

\* ------------------------------------------------------------ joinRoom
JoinTask(s, room) == [sock |-> s, room |-> room]

\* mutant of JoinRoomEmits: UserJoined is broadcast before UserLeft
JoinRoomEmits_JoinedFirst(s, username, oldRoom, newRoom, snap) ==
    << Emit("UserJoined", newRoom, username, s, snap),
       Emit("UserLeft", oldRoom, username, s, snap) >>

\* the two broadcasts of the joinRoom handler, in the order of the calls
JoinRoomEmits(s, username, oldRoom, newRoom, snap) ==
    << Emit("UserLeft", oldRoom, username, s, snap),
       Emit("UserJoined", newRoom, username, s, snap) >>

\* mutant of JoinRoom: getOrCreateRoom(newRoom) is called before the record
\* of the socket is looked up
JoinRoom_CreatesRoomFirst(s, newRoom) ==
    /\ conn[s] = "open"
    /\ Receive
    /\ Cardinality({t \in joins : t.sock = s}) < MaxJoinTasks
    /\ IF ~MapHas(connectedUsers, s)
       THEN /\ out' = <<>>
            /\ rooms' = getOrCreateRoom(rooms, newRoom)
            /\ UNCHANGED <<connectedUsers, joins>>
       ELSE LET userData == connectedUsers[s]
                oldRoom == userData.currentRoom
                left == RoomDelete(rooms, oldRoom, userData.uuid)
            IN  /\ rooms' = RoomAdd(left, newRoom, userData.uuid)
                /\ connectedUsers' = MapSet(connectedUsers, s,
                        [userData EXCEPT !.currentRoom = newRoom])
                /\ out' = JoinRoomEmits(s, userData.username, oldRoom, newRoom,
                                        Snap(rooms', connectedUsers', typingUsers))
                /\ joins' = joins \cup {JoinTask(s, newRoom)}
    /\ UNCHANGED <<chatVars, storeVars, sockVars, typingVars, logins, disconnecting>>

\* socket.on(Events.JoinRoom): up to the await in sendRecentMessages
JoinRoom(s, newRoom) ==
    /\ conn[s] = "open"
    /\ Receive
    /\ Cardinality({t \in joins : t.sock = s}) < MaxJoinTasks
    /\ IF ~MapHas(connectedUsers, s)
       THEN /\ out' = <<>>
            /\ UNCHANGED <<connectedUsers, rooms, joins>>
       ELSE LET userData == connectedUsers[s]
                oldRoom == userData.currentRoom
                left == RoomDelete(rooms, oldRoom, userData.uuid)
            IN  /\ rooms' = RoomAdd(left, newRoom, userData.uuid)
                /\ connectedUsers' = MapSet(connectedUsers, s,
                        [userData EXCEPT !.currentRoom = newRoom])
                /\ out' = JoinRoomEmits(s, userData.username, oldRoom, newRoom,
                                        Snap(rooms', connectedUsers', typingUsers))
                /\ joins' = joins \cup {JoinTask(s, newRoom)}
    /\ UNCHANGED <<chatVars, storeVars, sockVars, typingVars, logins, disconnecting>>

\* await sendRecentMessages returns: the backlog (unless the fetch failed),
\* then socket.emit(Events.JoinedRoom, newRoom)
JoinRoomFinish(t, ok) ==
    /\ t \in joins
    /\ joins' = joins \ {t}
    /\ out' = sendRecentMessages(t.sock, t.room, ok, Now)
                \o <<Emit("JoinedRoom", t.room, "-", t.sock, Now)>>
    /\ UNCHANGED <<chatVars, storeVars, sockVars, connectedUsers, rooms, typingVars, logins,
                   disconnecting, events>>

\* ------------------------------------------------------------ disconnect
\* mutant of Disconnect: UserLeft is broadcast to the default room before
\* the record is looked at
Disconnect_AlwaysLeft(s) ==
    /\ conn[s] = "open"
    /\ Receive
    /\ conn' = [conn EXCEPT ![s] = "closed"]
    /\ disconnecting' = IF MapHas(connectedUsers, s)
                        THEN MapSet(disconnecting, s, connectedUsers[s])
                        ELSE disconnecting
    /\ out' = <<Emit("UserLeft", "General", "-", s, Now)>>
    /\ UNCHANGED <<chatVars, storeVars, authenticationAttempted, tempUserTimeout,
                   connectedUsers, rooms, typingVars, logins, joins>>

\* socket.on(Events.Disconnect): up to await updateUserStatus; with no
\* record the handler is over at once
Disconnect(s) ==
    /\ conn[s] = "open"
    /\ Receive
    /\ conn' = [conn EXCEPT ![s] = "closed"]
    /\ disconnecting' = IF MapHas(connectedUsers, s)
                        THEN MapSet(disconnecting, s, connectedUsers[s])
                        ELSE disconnecting
    /\ out' = <<>>
    /\ UNCHANGED <<chatVars, storeVars, authenticationAttempted, tempUserTimeout, connectedUsers, rooms,
                   typingVars, logins, joins>>

\* mutant of DisconnectFinish: UserLeft is broadcast first, before the uuid
\* leaves the room and the typing entry is dropped
DisconnectFinish_LeftFirst(s) ==
    /\ MapHas(disconnecting, s)
    /\ LET userData == disconnecting[s]
           room == userData.currentRoom
           name == userData.username
       IN  /\ out' = <<Emit("UserLeft", room, name, s, Now)>>
           /\ rooms' = RoomDelete(rooms, room, userData.uuid)
           /\ IF MapHas(typingUsers, room)
              THEN /\ typingUsers' = MapSet(typingUsers, room,
                                            typingUsers[room] \ {name})
                   /\ pendingTimers' = pendingTimers
                                          \ ClearedTimers(typingTimeouts, room, name)
                   /\ typingTimeouts' = ClearUserTimeout(typingTimeouts, room, name)
              ELSE UNCHANGED <<typingUsers, typingTimeouts, pendingTimers>>
           /\ connectedUsers' = MapDelete(connectedUsers, s)
    /\ disconnecting' = MapDelete(disconnecting, s)
    /\ UNCHANGED <<chatVars, storeVars, sockVars, logins, joins, events>>

\* the rest of the disconnect handler, after updateUserStatus resolved or
\* its error was caught
DisconnectFinish(s) ==
    /\ MapHas(disconnecting, s)
    /\ LET userData == disconnecting[s]
           room == userData.currentRoom
           name == userData.username
       IN  /\ rooms' = RoomDelete(rooms, room, userData.uuid)
           /\ IF MapHas(typingUsers, room)
              THEN /\ typingUsers' = MapSet(typingUsers, room,
                                            typingUsers[room] \ {name})
                   /\ pendingTimers' = pendingTimers
                                          \ ClearedTimers(typingTimeouts, room, name)
                   /\ typingTimeouts' = ClearUserTimeout(typingTimeouts, room, name)
              ELSE UNCHANGED <<typingUsers, typingTimeouts, pendingTimers>>
           /\ out' = <<Emit("UserLeft", room, name, s,
                            Snap(rooms', connectedUsers, typingUsers'))>>
           /\ connectedUsers' = MapDelete(connectedUsers, s)
    /\ disconnecting' = MapDelete(disconnecting, s)
    /\ UNCHANGED <<chatVars, storeVars, sockVars, logins, joins, events>>

\* ------------------------------------------------------------ chatMessage
\* the payloads a client may send: strings; none holds an '@', so the mention
\* loop after the broadcast finds nothing, and no socket is in
\* 'Test Environment', so the bot branch is not entered
ChatInputs == {JsString(<<>>), JsString(<<" ">>), JsString(<<" ", "h", "i", " ">>)}

\* String.prototype.trim on a character sequence
RECURSIVE TrimStart(_)
TrimStart(m) == IF m # <<>> /\ Head(m) = " " THEN TrimStart(Tail(m)) ELSE m
RECURSIVE TrimEnd(_)
TrimEnd(m) ==
    IF m # <<>> /\ m[Len(m)] = " " THEN TrimEnd(SubSeq(m, 1, Len(m) - 1)) ELSE m
Trim(m) == TrimEnd(TrimStart(m))

\* if (!msg || typeof msg !== 'string') return; if (trimmedMsg === '') return
Accepted(msg) == msg.truthy /\ msg.type = "string" /\ Trim(msg.chars) # <<>>

\* the text the handler goes on with: trimmed, cut to 1000 characters
MaxMessageLength == 1000

\* mutant of Sanitize: the text is trimmed and never cut
Sanitize_NoCut(msg) == Trim(msg)

Sanitize(msg) ==
    LET trimmedMsg == Trim(msg)
    IN  IF Len(trimmedMsg) > MaxMessageLength
        THEN SubSeq(trimmedMsg, 1, MaxMessageLength)
        ELSE trimmedMsg

\* a chatMessage body suspended at an await: room and userData were read
\* before the first await; seq is the place of the message among those accepted
ChatTask(s, userData, msg, seq, pc) ==
    [sock |-> s, room |-> userData.currentRoom, username |-> userData.username,
     message |-> msg, seq |-> seq, pc |-> pc]

\* io.to(room).emit(Events.ChatMessage, { user: userData, message: msg }):
\* to every socket of the room, the sender included
ChatEmit(t, snap) ==
    [ev |-> "chatMessage", room |-> t.room, who |-> t.username, from |-> t.sock,
     snap |-> snap, message |-> t.message, seq |-> t.seq]

\* console.error('Error saving message to database:', error)
ChatErrorLog(t, snap) ==
    [ev |-> "console.error", room |-> "-", who |-> t.username, from |-> t.sock,
     snap |-> snap]

\* socket.on(Events.ChatMessage): validation, up to await getUserByUuid
ChatMessage(s, msg) ==
    /\ conn[s] = "open"
    /\ Receive
    /\ out' = <<>>
    /\ IF MapHas(connectedUsers, s) /\ Accepted(msg)
       THEN /\ chatSeq < MaxChats
            /\ chatSeq' = chatSeq + 1
            /\ chats' = chats \cup {ChatTask(s, connectedUsers[s], Sanitize(msg.chars),
                                             chatSeq + 1, "getUserByUuid")}
       ELSE UNCHANGED chatVars
    /\ UNCHANGED <<sockVars, connectedUsers, rooms, typingVars, logins, joins,
                   disconnecting, storeVars>>

\* where the try block goes when the call awaited at pc returns res: the next
\* awaited call, "emit" after saveMessage, "catch" when the call rejects
ChatNext(pc, res) ==
    IF res = "reject" THEN "catch"
    ELSE IF pc = "getUserByUuid"
         THEN (IF res = "null" THEN "createUser" ELSE "getRoomByName")
    ELSE IF pc = "createUser" THEN "getRoomByName"
    ELSE IF pc = "getRoomByName"
         THEN (IF res = "null" THEN "createRoom" ELSE "saveMessage")
    ELSE IF pc = "createRoom" THEN "saveMessage"
    ELSE "emit"

\* mutant of ChatEnd: the broadcast is inside the try block, so an error
\* skips it
ChatEnd_InsideTry(t, failed) ==
    /\ chats' = chats \ {t}
    /\ out' = IF failed THEN <<ChatErrorLog(t, Now)>> ELSE <<ChatEmit(t, Now)>>

\* the end of the body: the catch block if the try block failed, then the
\* broadcast
ChatEnd(t, failed) ==
    /\ chats' = chats \ {t}
    /\ out' = (IF failed THEN <<ChatErrorLog(t, Now)>> ELSE <<>>)
                \o <<ChatEmit(t, Now)>>

\* the storage call a chatMessage body awaits returns a value, returns
\* nothing (no such user, no such room), or rejects
ChatAwait(t, res) ==
    /\ t \in chats
    /\ res = "null" => t.pc \in {"getUserByUuid", "getRoomByName"}
    /\ LET pc == ChatNext(t.pc, res)
       IN  IF pc \in {"emit", "catch"}
           THEN ChatEnd(t, pc = "catch")
           ELSE /\ chats' = (chats \ {t}) \cup {[t EXCEPT !.pc = pc]}
                /\ out' = <<>>
    /\ UNCHANGED <<sockVars, connectedUsers, rooms, typingVars, logins, joins,
                   disconnecting, chatSeq, storeVars, events>>

Next ==
    \/ \E s \in Sockets : Connection(s)
    \/ \E s \in Sockets, n \in LoginNames : UserLogin(s, n)
    \/ \E t \in logins, ok \in BOOLEAN : LoginGetUser(t, ok)
    \/ \E t \in logins, ok \in BOOLEAN : LoginBind(t, ok)
    \/ \E t \in logins, ok \in BOOLEAN : LoginNotify(t, ok)
    \/ \E t \in logins, ok \in BOOLEAN : LoginFinish(t, ok)
    \/ \E s \in Sockets, n \in TempNames : TempUserTimeoutFire(s, n)
    \/ \E s \in Sockets : Typing(s)
    \/ \E h \in pendingTimers : TypingTimeoutFire(h)
    \/ \E s \in Sockets : StopTyping(s)
    \/ \E s \in Sockets, r \in RoomNames : JoinRoom(s, r)
    \/ \E t \in joins, ok \in BOOLEAN : JoinRoomFinish(t, ok)
    \/ \E s \in Sockets : Disconnect(s)
    \/ \E s \in Sockets : DisconnectFinish(s)

\* The session handlers alone: no chatMessage is sent, chats stays empty.
Spec == Init /\ [][Next]_vars

\* The chatMessage handler writes none of the maps; the specification with
\* it has the session handlers and the chat bodies interleave freely.
NextChat ==
    \/ Next
    \/ \E s \in Sockets, msg \in ChatInputs : ChatMessage(s, msg)
    \/ \E t \in chats, res \in {"value", "null", "reject"} : ChatAwait(t, res)

SpecChat == Init /\ [][NextChat]_vars

\* ------------------------------------------------------------ chat payloads
\* whitespace characters before and after the text of a long payload
MaxPad == 1

Repeat(c, n) == [i \in 1 .. n |-> c]
Padded(i, body, j) == Repeat(" ", i) \o body \o Repeat(" ", j)

\* values that are not strings: undefined, null, an object, 0, a number
NonStrings ==
    {Undefined, JsValue("object", FALSE), JsValue("object", TRUE),
     JsValue("number", FALSE), JsValue("number", TRUE)}

\* texts around the 1000 character limit; the last has a space where the cut falls
LongBodies ==
    {Repeat("a", MaxMessageLength - 1), Repeat("a", MaxMessageLength),
     Repeat("a", MaxMessageLength + 1),
     Repeat("a", MaxMessageLength - 1) \o <<" ", "b">>}

ChatPayloads ==
    ChatInputs \cup NonStrings
        \cup {JsString(Padded(i, b, j)) : i \in 0 .. MaxPad, j \in 0 .. MaxPad,
                                           b \in LongBodies}

\* The chatMessage handler applied to one payload: sockets connect, the
\* fallback timer binds them, and every chatMessage they send carries payload.
InitValidate ==
    /\ InitSession
    /\ messages = {}
    /\ messageCache = EmptyMap
    /\ cached = EmptyMap
    /\ payload \in ChatPayloads

NextValidate ==
    \/ \E s \in Sockets : Connection(s)
    \/ \E s \in Sockets, n \in TempNames : TempUserTimeoutFire(s, n)
    \/ \E s \in Sockets : ChatMessage(s, payload)
    \/ \E t \in chats, res \in {"value", "null", "reject"} : ChatAwait(t, res)

SpecValidate == InitValidate /\ [][NextValidate]_vars

\* ------------------------------------------------------------ room backlog
\* the messages tables the backlog is read from: at most MaxRows rows, in
\* the rooms of RoomNames, with timestamps 1 .. MaxTimestamp (equal
\* timestamps included); every row has its users row (foreign key)
MaxRows == 3
MaxTimestamp == 2
NoRow == [room |-> "-", ts |-> 0]
RowChoices == {NoRow} \cup [room : RoomNames, ts : 1 .. MaxTimestamp]
Tables ==
    {{[id |-> i, room |-> f[i].room, ts |-> f[i].ts] : i \in {j \in 1 .. MaxRows : f[j] # NoRow}} :
        f \in [1 .. MaxRows -> RowChoices]}

\* sendRecentMessages(socket, roomName, limit = 50): the default limit, and
\* the limits the model calls it with
DefaultLimit == 50
Limits == {1, 2, DefaultLimit}

\* the rows of S in an order ORDER BY m.timestamp DESC may return them in
\* (rows with equal timestamps come in any order)
RECURSIVE DescOrders(_)
DescOrders(S) ==
    IF S = {}
    THEN {<<>>}
    ELSE UNION {{<<m>> \o q : q \in DescOrders(S \ {m})} :
                    m \in {x \in S : \A y \in S : x.ts >= y.ts}}

\* Array.prototype.reverse
Reverse(q) == [i \in 1 .. Len(q) |-> q[Len(q) + 1 - i]]

\* LIMIT ?
Limit(q, limit) == SubSeq(q, 1, IF limit < Len(q) THEN limit ELSE Len(q))

\* mutant of getRecentMessages: the .reverse() call is missing
getRecentMessages_NoReverse(table, roomName, limit) ==
    {Limit(q, limit) : q \in DescOrders({m \in table : m.room = roomName})}

\* getRecentMessages(roomName, limit): the lists the query may return
getRecentMessages(table, roomName, limit) ==
    {Reverse(Limit(q, limit)) : q \in DescOrders({m \in table : m.room = roomName})}

\* socket.emit(Events.ChatMessage, msg) of the backlog loop
BacklogEmit(s, msg) ==
    [ev |-> "chatMessage", room |-> "-", who |-> "-", from |-> s, msg |-> msg]

\* the variables of the session and chat handlers
sessionVars ==
    <<sockVars, connectedUsers, rooms, typingVars, logins, joins, disconnecting,
      chatVars, events>>

\* sendRecentMessages with the messages of the table: the fetched list is
\* emitted message by message, or the fetch rejects and nothing is emitted.
\* A behaviour follows one call on its table (a call reads the table only,
\* so a second call would start from the same table).
SendRecentMessages(s, roomName, limit, ok) ==
    /\ out = <<>>
    /\ IF ok
       THEN \E fetched \in getRecentMessages(messages, roomName, limit) :
               out' = [i \in 1 .. Len(fetched) |-> BacklogEmit(s, fetched[i])]
       ELSE out' = <<>>
    /\ UNCHANGED <<sessionVars, storeVars>>

InitBacklog ==
    /\ InitSession
    /\ messages \in Tables
    /\ messageCache = EmptyMap
    /\ cached = EmptyMap
    /\ payload = Undefined

NextBacklog ==
    \E s \in Sockets, r \in RoomNames, l \in Limits, ok \in BOOLEAN :
        SendRecentMessages(s, r, l, ok)

SpecBacklog == InitBacklog /\ [][NextBacklog]_vars

\* ------------------------------------------------------------ client cache
\* "Keep only last 100 messages per room"
CacheLimit == 100
\* cacheMessage calls per room beyond the CacheLimit that the model follows
MaxOverflow == 2

\* the message of the k-th cacheMessage call for a room
CachedMessage(roomName, k) == [room |-> roomName, n |-> k]

CachedCount(roomName) == IF MapHas(cached, roomName) THEN cached[roomName] ELSE 0

\* mutant of cacheMessage: splice(100) cuts the new end instead of the old one
cacheMessage_KeepsFirst(cache, roomName, message) ==
    LET pushed == (IF MapHas(cache, roomName) THEN cache[roomName] ELSE <<>>)
                      \o <<message>>
        roomMessages == IF Len(pushed) > CacheLimit
                        THEN SubSeq(pushed, 1, CacheLimit)
                        ELSE pushed
    IN  MapSet(cache, roomName, roomMessages)

\* StateManager.cacheMessage(roomName, message): the messageCache after it
cacheMessage(cache, roomName, message) ==
    LET pushed == (IF MapHas(cache, roomName) THEN cache[roomName] ELSE <<>>)
                      \o <<message>>
        roomMessages == IF Len(pushed) > CacheLimit
                        THEN SubSeq(pushed, Len(pushed) - CacheLimit + 1, Len(pushed))
                        ELSE pushed
    IN  MapSet(cache, roomName, roomMessages)

\* the client receives a message of a room and caches it
CacheMessage(roomName) ==
    /\ CachedCount(roomName) < CacheLimit + MaxOverflow
    /\ cached' = MapSet(cached, roomName, CachedCount(roomName) + 1)
    /\ messageCache' = cacheMessage(messageCache, roomName,
                                    CachedMessage(roomName, CachedCount(roomName) + 1))
    /\ UNCHANGED <<sessionVars, messages, payload, out>>

NextCache == \E r \in RoomNames : CacheMessage(r)

SpecCache == Init /\ [][NextCache]_vars

\* setTimeout runs the callback of a timer that is not cleared once its delay
\* has passed: a pending fallback timer does fire
FairSpec ==
    Spec /\ \A s \in Sockets : WF_vars(\E n \in TempNames : TempUserTimeoutFire(s, n))

\* ================================================================ claims
AllUuids == {DbUuid(n) : n \in DbUsers} \cup {TempUuid(s) : s \in Sockets}
AllNames == DbUsers \cup TempNames
MembersIn(rms, r) == IF MapHas(rms, r) THEN rms[r] ELSE {}
RoomsOf(u) == {r \in DOMAIN rooms : u \in rooms[r]}
Bound(s) == MapHas(connectedUsers, s)
\* the fallback timer bound a provisional identity to s and it is still there
Provisional(s) == Bound(s) /\ connectedUsers[s].uuid = TempUuid(s)
\* the disconnect handler of s has run to its end
Disconnected(s) == conn[s] = "closed" /\ ~MapHas(disconnecting, s)
\* some step of the user_login body t
LoginStep(t) ==
    \E ok \in BOOLEAN :
        LoginGetUser(t, ok) \/ LoginBind(t, ok) \/ LoginNotify(t, ok) \/ LoginFinish(t, ok)
\* socket s, bound and in another room than r, is switched to r by this step
Switch(s, r) == JoinRoom(s, r) /\ Bound(s) /\ connectedUsers[s].currentRoom # r
EventsOf(o, ev) == {i \in 1 .. Len(o) : o[i].ev = ev}

\* C1: the connection record of a socket is never replaced by a record of a
\* different identity: once connectedUsers[s] holds an identity, every later
\* record of s holds the same one.
C1_RecordNeverReplaced ==
    [][\A s \in Sockets :
          (Bound(s) /\ MapHas(connectedUsers', s))
              => connectedUsers'[s].uuid = connectedUsers[s].uuid]_vars

\* C2: a user_login body running on a socket that the fallback timer has
\* bound provisionally changes neither the connection record nor any room's
\* member set, and is not answered with authentication_success.
C2_LateHandshakeAlreadyBound ==
    [][\A t \in logins :
          (Provisional(t.sock) /\ LoginStep(t))
              => /\ connectedUsers' = connectedUsers
                 /\ rooms' = rooms
                 /\ EventsOf(out', "authentication_success") = {}]_vars

\* C3: every identity id is in the member set of at most one room.
C3_SingleRoomMembership ==
    \A u \in AllUuids : Cardinality(RoomsOf(u)) <= 1

\* C4: every identity has typing state (a typingTimeouts entry with its
\* pending decay timer) in at most one room.
C4_SingleRoomTyping ==
    \A u \in AllUuids :
        Cardinality({h.room : h \in {x \in pendingTimers : x.uuid = u}}) <= 1

\* C5: a room switch from A to another room B emits exactly UserLeft to A and
\* then UserJoined to B, and at both emit calls the identity is already out
\* of A's member set and in B's.
C5_LeftBeforeJoined ==
    [][\A s \in Sockets, r \in RoomNames :
          Switch(s, r) =>
              LET u == connectedUsers[s]
              IN  /\ Len(out') = 2
                  /\ out'[1].ev = "UserLeft" /\ out'[1].room = u.currentRoom
                  /\ out'[2].ev = "UserJoined" /\ out'[2].room = r
                  /\ \A i \in 1 .. 2 :
                        /\ out'[i].who = u.username
                        /\ u.uuid \notin MembersIn(out'[i].snap.rooms, u.currentRoom)
                        /\ u.uuid \in MembersIn(out'[i].snap.rooms, r)]_vars

\* C5 witness: the last step was a switch between two different rooms
C5_Witness ==
    /\ Len(out) = 2
    /\ out[1].ev = "UserLeft" /\ out[2].ev = "UserJoined"
    /\ out[1].room # out[2].room

\* C6: right after a room switch from A to B no decay timer of the switching
\* identity is pending for A, and the entry such a timer stood for is gone
\* from A's typing set.
C6_SwitchClearsTyping ==
    [][\A s \in Sockets, r \in RoomNames :
          Switch(s, r) =>
              LET u == connectedUsers[s]
                  mine == {h \in pendingTimers :
                              h.room = u.currentRoom /\ h.uuid = u.uuid}
              IN  /\ mine \cap pendingTimers' = {}
                  /\ mine # {} =>
                        u.username \notin MembersIn(typingUsers', u.currentRoom)]_vars

\* C7: whenever the typing entry of a name in a room ends (by decay, explicit
\* stop, room switch or disconnect), that step emits exactly one stopTyping
\* for that name to that room.
C7_EveryStartStoppedOnce ==
    [][\A r \in RoomNames, n \in AllNames :
          (n \in MembersIn(typingUsers, r) /\ n \notin MembersIn(typingUsers', r))
              => Cardinality({i \in EventsOf(out', "stopTyping") :
                                 out'[i].room = r /\ out'[i].who = n}) = 1]_vars

\* C8: a typing signal of an identity whose name is already in its room's
\* typing set emits no typing notification.
C8_OneStartPerBurst ==
    [][\A s \in Sockets :
          (Typing(s) /\ Bound(s)
             /\ connectedUsers[s].username
                  \in MembersIn(typingUsers, connectedUsers[s].currentRoom))
              => EventsOf(out', "typing") = {}]_vars

\* C9: once the disconnect handler of a socket has run, the socket has no
\* connection record, its provisional identity is in no room, and no decay
\* timer (typing entry) armed by it is left.
C9_NoResidueAfterDisconnect ==
    \A s \in Sockets :
        Disconnected(s) =>
            /\ ~Bound(s)
            /\ RoomsOf(TempUuid(s)) = {}
            /\ {h \in pendingTimers : h.sock = s} = {}

\* C10: once the disconnect handler of a socket has run, neither its
\* fallback timer nor a decay timer armed by it fires.
C10_NoTimerAfterDisconnect ==
    [][\A s \in Sockets :
          Disconnected(s) =>
              /\ ~ \E n \in TempNames : TempUserTimeoutFire(s, n)
              /\ ~ \E h \in pendingTimers : h.sock = s /\ TypingTimeoutFire(h)]_vars

\* C11: a socket whose user_login arrived before its fallback timer fired has
\* the timer cleared, and its provisional identity is bound to nothing: not
\* in the connection record, not in any room.
C11_HandshakeCancelsFallback ==
    \A s \in Sockets :
        (authenticationAttempted[s] /\ tempUserTimeout[s] # "fired")
            => /\ tempUserTimeout[s] = "cleared"
               /\ ~Provisional(s)
               /\ RoomsOf(TempUuid(s)) = {}

\* C11 witness: a handshake that beat the timer has bound its account
C11_Witness ==
    \E s \in Sockets :
        /\ tempUserTimeout[s] = "cleared"
        /\ Bound(s) /\ connectedUsers[s].uuid \in {DbUuid(n) : n \in DbUsers}

C13_FailedLookupBindsNothing ==
    [][\A t \in logins, ok \in BOOLEAN :
          (LoginGetUser(t, ok) /\ ~(ok /\ t.username \in DbUsers))
              => /\ Len(out') = 1
                 /\ out'[1].ev = "authentication_failed" /\ out'[1].from = t.sock
                 /\ connectedUsers' = connectedUsers
                 /\ rooms' = rooms
                 /\ tempUserTimeout'[t.sock] # "pending"]_vars

\* C13 witness: a handshake was just rejected and its socket is unbound
C13_Witness ==
    /\ Len(out) = 1 /\ out[1].ev = "authentication_failed"
    /\ ~Bound(out[1].from)
    /\ authenticationAttempted[out[1].from]

\* C14: a user_login body that reaches its binding step on a socket already
\* bound to a database identity (a duplicate handshake) does nothing: the
\* connection records, every room's member set and the typing state are
\* unchanged, nothing is emitted, and the body does not go on to the
\* UserJoined broadcast and the backlog.
C14_DuplicateHandshakeNoOp ==
    [][\A t \in logins :
          (Bound(t.sock) /\ ~Provisional(t.sock) /\ LoginBind(t, TRUE))
              => /\ connectedUsers' = connectedUsers
                 /\ rooms' = rooms
                 /\ typingUsers' = typingUsers
                 /\ out' = <<>>
                 /\ \A u \in logins' : u.sock # t.sock]_vars

\* C15: a JoinRoom request naming the room the socket's record already has
\* as currentRoom changes neither the room member sets nor the connection
\* records, and emits neither UserLeft nor UserJoined.
C15_RejoinSameRoomNoOp ==
    [][\A s \in Sockets, r \in RoomNames :
          (Bound(s) /\ connectedUsers[s].currentRoom = r /\ JoinRoom(s, r))
              => /\ rooms' = rooms
                 /\ connectedUsers' = connectedUsers
                 /\ EventsOf(out', "UserLeft") = {}
                 /\ EventsOf(out', "UserJoined") = {}]_vars

\* what the maps looked like when the UserLeft of a disconnect was emitted:
\* the captured uuid is out of the room, the name out of its typing set
LeftAfterCleanup(o, userData) ==
    /\ o.ev = "UserLeft" /\ o.room = userData.currentRoom
    /\ userData.uuid \notin MembersIn(o.snap.rooms, o.room)
    /\ (MapHas(o.snap.typing, o.room) => userData.username \notin o.snap.typing[o.room])

\* C16 as stated: when the disconnect handler broadcasts UserLeft, the typing
\* state is cleared, the uuid is out of the room and the connection record
\* of the socket is already removed.
C16_LeftAfterRecordRemoval ==
    [][\A s \in Sockets :
          DisconnectFinish(s)
              => /\ Len(out') = 1
                 /\ LeftAfterCleanup(out'[1], disconnecting[s])
                 /\ ~MapHas(out'[1].snap.users, s)]_vars

\* C16 amended: when the disconnect handler broadcasts UserLeft, the uuid is
\* out of the room and the typing state is cleared, but the connection
\* record of the socket is still present; it is removed after the broadcast,
\* in the same uninterrupted step.
C16_LeftBeforeRecordRemoval ==
    [][\A s \in Sockets :
          DisconnectFinish(s)
              => /\ Len(out') = 1
                 /\ LeftAfterCleanup(out'[1], disconnecting[s])
                 /\ MapHas(out'[1].snap.users, s)
                 /\ ~MapHas(connectedUsers', s)]_vars

\* C16 witness: the disconnect handler of a bound socket has just broadcast
\* UserLeft and removed the record
C16_Witness ==
    \E s \in Sockets :
        /\ Disconnected(s) /\ ~Bound(s)
        /\ Len(out) = 1 /\ out[1].ev = "UserLeft" /\ out[1].from = s
        /\ MapHas(out[1].snap.users, s)

\* C17: every step that binds an identity to a socket puts the identity in
\* the users of General, and either broadcasts UserJoined and then delivers
\* the backlog of General to the socket in that step, or leaves the
\* user_login body suspended before its UserJoined broadcast, from where it
\* does the two in that order.
C17_BindingJoinsNotifiesDelivers ==
    [][\A s \in Sockets :
          (~MapHas(connectedUsers, s) /\ MapHas(connectedUsers', s))
              => /\ connectedUsers'[s].uuid \in MembersIn(rooms', "General")
                 /\ \/ \E t \in logins' : t.sock = s /\ t.pc = "addUserToRoom"
                    \/ \E i, j \in 1 .. Len(out') :
                          /\ i < j
                          /\ out'[i].ev = "UserJoined" /\ out'[i].room = "General"
                          /\ out'[j].ev = "roomBacklog" /\ out'[j].room = "General"
                          /\ out'[j].from = s]_vars

\* C18: every typing or stopTyping notification caused by a socket is a
\* broadcast that excludes that socket, and its target is the room the
\* socket's identity occupies at the moment of the emit.
C18_TypingToCurrentRoomOnly ==
    \A i \in EventsOf(out, "typing") \cup EventsOf(out, "stopTyping") :
        /\ out[i].room # "-"
        /\ MapHas(out[i].snap.users, out[i].from)
        /\ out[i].room = out[i].snap.users[out[i].from].currentRoom

\* the chatMessage emits among o that carry the message of chat body t
BroadcastsOf(o, t) ==
    {i \in EventsOf(o, "chatMessage") :
        o[i].seq = t.seq /\ o[i].from = t.sock /\ o[i].room = t.room
            /\ o[i].message = t.message}

\* C19: a chatMessage body ends only by broadcasting its message to its room
\* exactly once, and it broadcasts in no other step; in particular the step
\* in which an awaited storage call rejects logs the error and broadcasts
\* the message once.
C19_BroadcastDespiteStorageError ==
    [][\A t \in chats :
          /\ Cardinality(BroadcastsOf(out', t))
                = (IF \E u \in chats' : u.seq = t.seq THEN 0 ELSE 1)
          /\ ChatAwait(t, "reject")
                => /\ \A u \in chats' : u.seq # t.seq
                   /\ Len(out') = 2 /\ out'[1].ev = "console.error"]_vars

\* C19 witness: a storage call of a chat body has just rejected; the error
\* was logged and the message broadcast
C19_Witness ==
    /\ Len(out) = 2
    /\ out[1].ev = "console.error"
    /\ out[2].ev = "chatMessage" /\ out[2].from = out[1].from
    /\ out[2].message = <<"h", "i">>

\* C20: chat messages of one socket are broadcast in the order they were
\* received: when a message is broadcast, no message the same socket sent
\* earlier is still waiting in a suspended chatMessage body.
C20_ChatOrderPerSocket ==
    \A i \in EventsOf(out, "chatMessage") :
        \A u \in chats : u.sock = out[i].from => u.seq > out[i].seq

\* the emit o names a room that its socket, open and bound, is in
FreshFor(o, cn) ==
    /\ cn[o.from] = "open"
    /\ MapHas(o.snap.users, o.from)
    /\ o.snap.users[o.from].currentRoom = o.room

\* C21: what a user_login or joinRoom body emits after an awaited call (the
\* UserJoined broadcast, the room backlog, the JoinedRoom confirmation) is
\* emitted for a room only if at that moment the socket is open, bound, and
\* has that room as its currentRoom.
C21_NoStaleJoinOutput ==
    [][(\/ \E t \in logins, ok \in BOOLEAN : LoginNotify(t, ok) \/ LoginFinish(t, ok)
        \/ \E t \in joins, ok \in BOOLEAN : JoinRoomFinish(t, ok))
          => \A i \in EventsOf(out', "UserJoined") \cup EventsOf(out', "roomBacklog")
                        \cup EventsOf(out', "JoinedRoom") :
                FreshFor(out'[i], conn')]_vars

\* C22: every open socket with a connection record has a currentRoom whose
\* member set holds the identity of the record.
C22_RecordAgreesWithRoom ==
    \A s \in Sockets :
        (conn[s] = "open" /\ Bound(s))
            => connectedUsers[s].uuid
                    \in MembersIn(rooms, connectedUsers[s].currentRoom)

\* C23: a JoinRoom of a bound socket naming a room that is not in the rooms
\* map creates it, with the identity as its member, and no step removes a
\* room name from the map.
C23_RoomsLazyNeverDestroyed ==
    [][/\ DOMAIN rooms \subseteq DOMAIN rooms'
       /\ \A s \in Sockets, r \in RoomNames :
             (Bound(s) /\ ~MapHas(rooms, r) /\ JoinRoom(s, r))
                 => /\ MapHas(rooms', r)
                    /\ connectedUsers[s].uuid \in rooms'[r]
                    /\ connectedUsers'[s].currentRoom = r
                    /\ \E t \in joins' : t.sock = s /\ t.room = r]_vars

\* C23 witness: a room outside the initial ones exists and is empty again
C23_Witness ==
    \E r \in DOMAIN rooms \ TEST_ROOMS : rooms[r] = {}

\* the timer typingTimeouts records for username in room, as a set
Registered(tt, room, username) ==
    IF MapHas(tt, room) /\ MapHas(tt[room], username) THEN {tt[room][username]} ELSE {}

\* C24: at most one decay timer is pending per room and identity; every
\* pending timer is the one typingTimeouts records for its room and name, so
\* a superseded timer is never pending and cannot fire; and a typing signal
\* that re-arms takes the timer it replaces out of the pending ones and emits
\* no stopTyping.
C24_RearmCancelsFirst ==
    /\ [](\A h1, h2 \in pendingTimers :
            (h1.room = h2.room /\ h1.uuid = h2.uuid) => h1 = h2)
    /\ [](\A h \in pendingTimers :
            Registered(typingTimeouts, h.room, h.username) = {h})
    /\ [][\A s \in Sockets :
             (Bound(s) /\ Typing(s))
                 => LET u == connectedUsers[s]
                        old == Registered(typingTimeouts, u.currentRoom, u.username)
                    IN  /\ old \cap pendingTimers' = {}
                        /\ EventsOf(out', "stopTyping") = {}]_vars

\* C24 witness: a typing signal has replaced a pending timer of the same
\* room and identity by a new one
C24_Witness ==
    \E h \in pendingTimers :
        /\ h.id = 1
        /\ Len(out) = 1 /\ out[1].ev = "typing" /\ out[1].from = h.sock

\* the pending decay timers of identity uuid in room
TimersOf(pending, room, uuid) == {h \in pending : h.room = room /\ h.uuid = uuid}

\* C25: a stopTyping of a bound socket whose identity has typing state in its
\* room removes the entry, takes the decay timer out of the pending ones and
\* emits exactly one stopTyping to the room; a stopTyping of an identity with
\* no typing state there changes no typing state and emits nothing.
C25_ExplicitStop ==
    [][\A s \in Sockets :
          (Bound(s) /\ StopTyping(s))
              => LET u == connectedUsers[s]
                     room == u.currentRoom
                     mine == TimersOf(pendingTimers, room, u.uuid)
                 IN  IF mine # {}
                     THEN /\ mine \cap pendingTimers' = {}
                          /\ u.username \notin MembersIn(typingUsers', room)
                          /\ Len(out') = 1 /\ out'[1].ev = "stopTyping"
                          /\ out'[1].room = room /\ out'[1].who = u.username
                     ELSE /\ UNCHANGED typingVars
                          /\ out' = <<>>]_vars

\* the typing state of every identity other than uuid is the same after the
\* step: its pending timers stay pending and their names stay in the sets
OthersKept(uuid) ==
    \A g \in pendingTimers :
        g.uuid # uuid
            => /\ g \in pendingTimers'
               /\ g.username \in MembersIn(typingUsers', g.room)
               /\ Registered(typingTimeouts', g.room, g.username) = {g}

\* C27: a typing or stopTyping signal of a socket, and the decay of a timer,
\* never remove or re-arm the typing entry of a different identity, even one
\* with the same display name.
C27_TypingKeyedByIdentity ==
    [][/\ \A s \in Sockets :
             (Bound(s) /\ (Typing(s) \/ StopTyping(s)))
                 => OthersKept(connectedUsers[s].uuid)
       /\ \A h \in pendingTimers : TypingTimeoutFire(h) => OthersKept(h.uuid)]_vars

\* C26: an open socket that is unbound still has something that will bind
\* it: its fallback timer is pending, or a user_login body of it is
\* suspended.  (Otherwise it stays unbound however long it remains open.)
C26_UnboundCanStillBind ==
    \A s \in Sockets :
        (conn[s] = "open" /\ ~Bound(s))
            => \/ tempUserTimeout[s] = "pending"
               \/ \E t \in logins : t.sock = s

\* C28: the disconnect of a socket that has no connection record changes no
\* room member set, no typing state and no record, emits nothing, and leaves
\* no handler body suspended for the socket.
C28_UnboundDisconnectSafe ==
    [][\A s \in Sockets :
          (~Bound(s) /\ Disconnect(s))
              => /\ rooms' = rooms
                 /\ UNCHANGED typingVars
                 /\ connectedUsers' = connectedUsers
                 /\ out' = <<>>
                 /\ ~MapHas(disconnecting', s)]_vars

\* C28 witness: a socket that was never bound (no handshake, the fallback
\* timer has not fired) has disconnected
C28_Witness ==
    \E s \in Sockets :
        /\ Disconnected(s) /\ ~Bound(s)
        /\ ~authenticationAttempted[s] /\ tempUserTimeout[s] = "pending"
        /\ out = <<>>

\* the emitted list o is a backlog of roomName under limit: only rows of the
\* room, each once, oldest first, at most limit of them and as many as
\* there are up to the limit, and no row left out is newer than a row sent
IsBacklog(o, table, roomName, limit) ==
    LET inRoom == {m \in table : m.room = roomName}
        sent == {o[i].msg : i \in 1 .. Len(o)}
    IN  /\ sent \subseteq inRoom
        /\ Cardinality(sent) = Len(o)
        /\ \A i, j \in 1 .. Len(o) : i < j => o[i].msg.ts <= o[j].msg.ts
        /\ Len(o) <= limit
        /\ Len(o) = (IF Cardinality(inRoom) < limit THEN Cardinality(inRoom) ELSE limit)
        /\ \A m \in inRoom \ sent : \A n \in sent : m.ts <= n.ts

\* C29: when the fetch succeeds, sendRecentMessages emits to the socket, one
\* by one and oldest first, at most limit messages of the room, and they are
\* the most recent ones of the room.
C29_BacklogOldestFirst ==
    [][\A s \in Sockets, r \in RoomNames, l \in Limits :
          SendRecentMessages(s, r, l, TRUE)
              => /\ IsBacklog(out', messages, r, l)
                 /\ \A i \in 1 .. Len(out') :
                       out'[i].ev = "chatMessage" /\ out'[i].from = s]_vars

\* C29 witness: a backlog of two messages with different timestamps was
\* delivered while the room holds a third, older message cut by the limit
C29_Witness ==
    /\ Len(out) = 2
    /\ out[1].msg.ts < out[2].msg.ts
    /\ \E m \in messages :
          m.room = out[1].msg.room /\ m # out[1].msg /\ m # out[2].msg

\* C30: the cached list of every room holds at most CacheLimit messages, and
\* they are the messages of the latest cacheMessage calls for that room in
\* call order; a cacheMessage call leaves the lists of the other rooms as
\* they are.
C30_CacheBounded ==
    /\ [](\A r \in DOMAIN messageCache :
            LET n == Len(messageCache[r])
            IN  /\ n <= CacheLimit
                /\ n = (IF cached[r] < CacheLimit THEN cached[r] ELSE CacheLimit)
                /\ \A i \in 1 .. n :
                      messageCache[r][i] = CachedMessage(r, cached[r] - n + i))
    /\ [][\A r \in RoomNames :
             CacheMessage(r)
                 => \A q \in DOMAIN messageCache \ {r} :
                       MapHas(messageCache', q) /\ messageCache'[q] = messageCache[q]]_vars

\* C30 witness: more than CacheLimit messages were cached for a room and the
\* oldest are gone, while another room has a cached list too
C30_Witness ==
    \E r, q \in DOMAIN messageCache :
        /\ r # q /\ messageCache[q] # <<>>
        /\ cached[r] > CacheLimit
        /\ Len(messageCache[r]) = CacheLimit
        /\ messageCache[r][1] = CachedMessage(r, cached[r] - CacheLimit + 1)

\* C31: when a user_login body answers authentication_failed, the socket has
\* no connection record of the identity the handshake named, and that
\* identity is in the users of General only if another socket is bound to it.
C31_FailedHandshakeLeavesNoBinding ==
    [][\A t \in logins :
          (LoginStep(t) /\ EventsOf(out', "authentication_failed") # {})
              => LET uuid == DbUuid(t.username)
                 IN  /\ ~(MapHas(connectedUsers', t.sock)
                            /\ connectedUsers'[t.sock].uuid = uuid)
                     /\ uuid \in MembersIn(rooms', "General")
                           => \E s \in Sockets \ {t.sock} :
                                 MapHas(connectedUsers', s)
                                     /\ connectedUsers'[s].uuid = uuid]_vars

\* C32: a joinRoom, typing, stopTyping or chatMessage event of a socket with
\* no connection record changes no room member set, no typing state and no
\* connection record, starts no handler body and emits nothing.
C32_UnboundEventsIgnored ==
    [][\A s \in Sockets :
          (/\ ~Bound(s)
           /\ \/ \E r \in RoomNames : JoinRoom(s, r)
              \/ Typing(s)
              \/ StopTyping(s)
              \/ \E msg \in ChatInputs : ChatMessage(s, msg))
              => /\ rooms' = rooms
                 /\ connectedUsers' = connectedUsers
                 /\ UNCHANGED typingVars
                 /\ joins' = joins /\ chats' = chats
                 /\ out' = <<>>]_vars

\* C32 witness: the only socket that connected is open and unbound, sent no
\* handshake, and an event of it has been received after the connection
C32_Witness ==
    \E s \in Sockets :
        /\ conn[s] = "open" /\ ~Bound(s) /\ ~authenticationAttempted[s]
        /\ \A q \in Sockets \ {s} : conn[q] = "idle"
        /\ events >= 2
        /\ out = <<>>

\* C33: the two typing stores agree in every state: a name is in
\* typingUsers[room] exactly when typingTimeouts[room] records a timer for
\* that name and that timer is pending.
C33_TypingStoresAgree ==
    \A room \in RoomNames : \A name \in AllNames :
        name \in TypingIn(typingUsers, room)
            <=> /\ Registered(typingTimeouts, room, name) # {}
                /\ Registered(typingTimeouts, room, name) \subseteq pendingTimers

\* C33 witness: a name is typing in one room with its recorded timer pending,
\* while its entry of another room, where it typed before, has been removed
C33_Witness ==
    \E room \in RoomNames : \E name \in AllNames :
        /\ name \in TypingIn(typingUsers, room)
        /\ Registered(typingTimeouts, room, name) # {}
        /\ Registered(typingTimeouts, room, name) \subseteq pendingTimers
        /\ \E other \in RoomNames \ {room} :
              /\ MapHas(typingUsers, other) /\ name \notin typingUsers[other]
              /\ MapHas(typingTimeouts, other)
              /\ ~MapHas(typingTimeouts[other], name)

\* C34: a name is in the typing state of a room only if some open socket has
\* a connection record of that name whose currentRoom is that room.
C34_TypingImpliesMembership ==
    \A room \in RoomNames : \A name \in AllNames :
        name \in TypingIn(typingUsers, room)
            => \E s \in Sockets :
                  /\ conn[s] = "open"
                  /\ MapHas(connectedUsers, s)
                  /\ connectedUsers[s].username = name
                  /\ connectedUsers[s].currentRoom = room

\* the payload is a string with a character that is not whitespace
HasText(v) ==
    v.type = "string" /\ \E k \in 1 .. Len(v.chars) : v.chars[k] # " "

\* r is m without its surrounding whitespace, cut to MaxMessageLength
\* characters: r starts at the first character of m that is not whitespace,
\* and either runs to the last such character or is the first
\* MaxMessageLength characters of that stretch
CutOfTrimmed(r, m) ==
    /\ r # <<>> /\ Len(r) <= MaxMessageLength /\ r[1] # " "
    /\ \E i \in 0 .. Len(m) - Len(r) :
          /\ \A k \in 1 .. i : m[k] = " "
          /\ r = SubSeq(m, i + 1, i + Len(r))
          /\ IF Len(r) < MaxMessageLength
             THEN /\ r[Len(r)] # " "
                  /\ \A k \in i + Len(r) + 1 .. Len(m) : m[k] = " "
             ELSE \E k \in i + Len(r) .. Len(m) : m[k] # " "

====
